---- MODULE Spec2Model ----
(***************************************************************************)
(* Model of weather_agent/__init__.py: the WeatherDataset lookup table,    *)
(* the remote-first / local-fallback resolver query_weather, and           *)
(* iter_available_locations.                                               *)
(*                                                                         *)
(* Text.  A Python str is a sequence of Unicode code points, written as    *)
(* integers: "a" is <<97>>, the first table key (Beijing) is               *)
(* <<21271, 20140>>.  Concatenation, strip() and lower() work on the       *)
(* sequence as CPython's do (Unicode 14.0.0).                              *)
(***************************************************************************)
EXTENDS Integers, Sequences, FiniteSets, TLC

VARIABLES
    datasets,       \* name -> WeatherDataset.data (insertion-ordered dict)
    pc,             \* position inside query_weather, "idle" when no call is active
    location,       \* query_weather's argument
    client,         \* runtime_client bound at line 111
    creates,        \* calls of runtime_client.agents.create made by this invocation
    streams,        \* calls of runtime_client.agents.responses.stream made by this invocation
    answered,       \* tool calls this invocation's tool_resolver has answered
    toolCall,       \* the tool call the open stream is resolving, NoCall outside
    toolOutput,     \* what tool_resolver returned for toolCall
    failedAt,       \* the step of the try block that raised, "" if none
    exc,            \* the class of the exception raised and not suppressed, "" if none
    fallbackCalls,  \* executions of line 132 by this invocation
    ret             \* the last completed top-level call and its outcome

vars == <<datasets, pc, location, client, creates, streams, answered,
          toolCall, toolOutput, failedAt, exc, fallbackCalls, ret>>

---------------------------------------------------------------------------
(* Bounds *)

MaxLen == 3

MaxToolCalls == 2

---------------------------------------------------------------------------
(* Characters and str methods *)

\* str.strip() with no argument removes the characters str.isspace() accepts:
\* U+0009..U+000D, U+001C..U+001F, U+0020, U+0085, U+00A0, U+1680,
\* U+2000..U+200A, U+2028, U+2029, U+202F, U+205F, U+3000.
Whitespace ==
    (9..13) \cup (28..32) \cup {133, 160, 5760} \cup (8192..8202)
        \cup {8232, 8233, 8239, 8287, 12288}

\* The characters the enumerated locations are built from: space and A.
Alphabet == {32, 65}

\* c lies in one of the intervals <<first, last>> of R.
InRanges(c, R) == \E i \in 1..Len(R) : R[i][1] <= c /\ c <= R[i][2]

\* The one-to-one lower-case mapping of str.lower(): <<first, last, step, d>>
\* maps each of first, first + step, ..., last to itself plus d.  These are
\* the 1432 code points whose lower() is one other character.
LowerRanges ==
    << <<65, 90, 1, 32>>, <<192, 214, 1, 32>>, <<216, 222, 1, 32>>, <<256, 302, 2, 1>>,
       <<306, 310, 2, 1>>, <<313, 327, 2, 1>>, <<330, 374, 2, 1>>, <<376, 376, 1, -121>>,
       <<377, 381, 2, 1>>, <<385, 385, 1, 210>>, <<386, 388, 2, 1>>, <<390, 390, 1, 206>>,
       <<391, 391, 1, 1>>, <<393, 394, 1, 205>>, <<395, 395, 1, 1>>, <<398, 398, 1, 79>>,
       <<399, 399, 1, 202>>, <<400, 400, 1, 203>>, <<401, 401, 1, 1>>, <<403, 403, 1, 205>>,
       <<404, 404, 1, 207>>, <<406, 406, 1, 211>>, <<407, 407, 1, 209>>, <<408, 408, 1, 1>>,
       <<412, 412, 1, 211>>, <<413, 413, 1, 213>>, <<415, 415, 1, 214>>, <<416, 420, 2, 1>>,
       <<422, 422, 1, 218>>, <<423, 423, 1, 1>>, <<425, 425, 1, 218>>, <<428, 428, 1, 1>>,
       <<430, 430, 1, 218>>, <<431, 431, 1, 1>>, <<433, 434, 1, 217>>, <<435, 437, 2, 1>>,
       <<439, 439, 1, 219>>, <<440, 440, 1, 1>>, <<444, 444, 1, 1>>, <<452, 452, 1, 2>>,
       <<453, 453, 1, 1>>, <<455, 455, 1, 2>>, <<456, 456, 1, 1>>, <<458, 458, 1, 2>>,
       <<459, 475, 2, 1>>, <<478, 494, 2, 1>>, <<497, 497, 1, 2>>, <<498, 500, 2, 1>>,
       <<502, 502, 1, -97>>, <<503, 503, 1, -56>>, <<504, 542, 2, 1>>, <<544, 544, 1, -130>>,
       <<546, 562, 2, 1>>, <<570, 570, 1, 10795>>, <<571, 571, 1, 1>>, <<573, 573, 1, -163>>,
       <<574, 574, 1, 10792>>, <<577, 577, 1, 1>>, <<579, 579, 1, -195>>, <<580, 580, 1, 69>>,
       <<581, 581, 1, 71>>, <<582, 590, 2, 1>>, <<880, 882, 2, 1>>, <<886, 886, 1, 1>>,
       <<895, 895, 1, 116>>, <<902, 902, 1, 38>>, <<904, 906, 1, 37>>, <<908, 908, 1, 64>>,
       <<910, 911, 1, 63>>, <<913, 929, 1, 32>>, <<931, 939, 1, 32>>, <<975, 975, 1, 8>>,
       <<984, 1006, 2, 1>>, <<1012, 1012, 1, -60>>, <<1015, 1015, 1, 1>>, <<1017, 1017, 1, -7>>,
       <<1018, 1018, 1, 1>>, <<1021, 1023, 1, -130>>, <<1024, 1039, 1, 80>>, <<1040, 1071, 1, 32>>,
       <<1120, 1152, 2, 1>>, <<1162, 1214, 2, 1>>, <<1216, 1216, 1, 15>>, <<1217, 1229, 2, 1>>,
       <<1232, 1326, 2, 1>>, <<1329, 1366, 1, 48>>, <<4256, 4293, 1, 7264>>, <<4295, 4295, 1, 7264>>,
       <<4301, 4301, 1, 7264>>, <<5024, 5103, 1, 38864>>, <<5104, 5109, 1, 8>>, <<7312, 7354, 1, -3008>>,
       <<7357, 7359, 1, -3008>>, <<7680, 7828, 2, 1>>, <<7838, 7838, 1, -7615>>, <<7840, 7934, 2, 1>>,
       <<7944, 7951, 1, -8>>, <<7960, 7965, 1, -8>>, <<7976, 7983, 1, -8>>, <<7992, 7999, 1, -8>>,
       <<8008, 8013, 1, -8>>, <<8025, 8031, 2, -8>>, <<8040, 8047, 1, -8>>, <<8072, 8079, 1, -8>>,
       <<8088, 8095, 1, -8>>, <<8104, 8111, 1, -8>>, <<8120, 8121, 1, -8>>, <<8122, 8123, 1, -74>>,
       <<8124, 8124, 1, -9>>, <<8136, 8139, 1, -86>>, <<8140, 8140, 1, -9>>, <<8152, 8153, 1, -8>>,
       <<8154, 8155, 1, -100>>, <<8168, 8169, 1, -8>>, <<8170, 8171, 1, -112>>, <<8172, 8172, 1, -7>>,
       <<8184, 8185, 1, -128>>, <<8186, 8187, 1, -126>>, <<8188, 8188, 1, -9>>, <<8486, 8486, 1, -7517>>,
       <<8490, 8490, 1, -8383>>, <<8491, 8491, 1, -8262>>, <<8498, 8498, 1, 28>>, <<8544, 8559, 1, 16>>,
       <<8579, 8579, 1, 1>>, <<9398, 9423, 1, 26>>, <<11264, 11311, 1, 48>>, <<11360, 11360, 1, 1>>,
       <<11362, 11362, 1, -10743>>, <<11363, 11363, 1, -3814>>, <<11364, 11364, 1, -10727>>, <<11367, 11371, 2, 1>>,
       <<11373, 11373, 1, -10780>>, <<11374, 11374, 1, -10749>>, <<11375, 11375, 1, -10783>>, <<11376, 11376, 1, -10782>>,
       <<11378, 11378, 1, 1>>, <<11381, 11381, 1, 1>>, <<11390, 11391, 1, -10815>>, <<11392, 11490, 2, 1>>,
       <<11499, 11501, 2, 1>>, <<11506, 11506, 1, 1>>, <<42560, 42604, 2, 1>>, <<42624, 42650, 2, 1>>,
       <<42786, 42798, 2, 1>>, <<42802, 42862, 2, 1>>, <<42873, 42875, 2, 1>>, <<42877, 42877, 1, -35332>>,
       <<42878, 42886, 2, 1>>, <<42891, 42891, 1, 1>>, <<42893, 42893, 1, -42280>>, <<42896, 42898, 2, 1>>,
       <<42902, 42920, 2, 1>>, <<42922, 42922, 1, -42308>>, <<42923, 42923, 1, -42319>>, <<42924, 42924, 1, -42315>>,
       <<42925, 42925, 1, -42305>>, <<42926, 42926, 1, -42308>>, <<42928, 42928, 1, -42258>>, <<42929, 42929, 1, -42282>>,
       <<42930, 42930, 1, -42261>>, <<42931, 42931, 1, 928>>, <<42932, 42946, 2, 1>>, <<42948, 42948, 1, -48>>,
       <<42949, 42949, 1, -42307>>, <<42950, 42950, 1, -35384>>, <<42951, 42953, 2, 1>>, <<42960, 42960, 1, 1>>,
       <<42966, 42968, 2, 1>>, <<42997, 42997, 1, 1>>, <<65313, 65338, 1, 32>>, <<66560, 66599, 1, 40>>,
       <<66736, 66771, 1, 40>>, <<66928, 66938, 1, 39>>, <<66940, 66954, 1, 39>>, <<66956, 66962, 1, 39>>,
       <<66964, 66965, 1, 39>>, <<68736, 68786, 1, 64>>, <<71840, 71871, 1, 32>>, <<93760, 93791, 1, 32>>,
       <<125184, 125217, 1, 34>> >>

\* The case-ignorable characters, as intervals <<first, last>>.
CaseIgnorable ==
    << <<39, 39>>, <<46, 46>>, <<58, 58>>, <<94, 94>>, <<96, 96>>, <<168, 168>>,
       <<173, 173>>, <<175, 175>>, <<180, 180>>, <<183, 184>>, <<688, 879>>, <<884, 885>>,
       <<890, 890>>, <<900, 901>>, <<903, 903>>, <<1155, 1161>>, <<1369, 1369>>, <<1375, 1375>>,
       <<1425, 1469>>, <<1471, 1471>>, <<1473, 1474>>, <<1476, 1477>>, <<1479, 1479>>, <<1524, 1524>>,
       <<1536, 1541>>, <<1552, 1562>>, <<1564, 1564>>, <<1600, 1600>>, <<1611, 1631>>, <<1648, 1648>>,
       <<1750, 1757>>, <<1759, 1768>>, <<1770, 1773>>, <<1807, 1807>>, <<1809, 1809>>, <<1840, 1866>>,
       <<1958, 1968>>, <<2027, 2037>>, <<2042, 2042>>, <<2045, 2045>>, <<2070, 2093>>, <<2137, 2139>>,
       <<2184, 2184>>, <<2192, 2193>>, <<2200, 2207>>, <<2249, 2306>>, <<2362, 2362>>, <<2364, 2364>>,
       <<2369, 2376>>, <<2381, 2381>>, <<2385, 2391>>, <<2402, 2403>>, <<2417, 2417>>, <<2433, 2433>>,
       <<2492, 2492>>, <<2497, 2500>>, <<2509, 2509>>, <<2530, 2531>>, <<2558, 2558>>, <<2561, 2562>>,
       <<2620, 2620>>, <<2625, 2626>>, <<2631, 2632>>, <<2635, 2637>>, <<2641, 2641>>, <<2672, 2673>>,
       <<2677, 2677>>, <<2689, 2690>>, <<2748, 2748>>, <<2753, 2757>>, <<2759, 2760>>, <<2765, 2765>>,
       <<2786, 2787>>, <<2810, 2815>>, <<2817, 2817>>, <<2876, 2876>>, <<2879, 2879>>, <<2881, 2884>>,
       <<2893, 2893>>, <<2901, 2902>>, <<2914, 2915>>, <<2946, 2946>>, <<3008, 3008>>, <<3021, 3021>>,
       <<3072, 3072>>, <<3076, 3076>>, <<3132, 3132>>, <<3134, 3136>>, <<3142, 3144>>, <<3146, 3149>>,
       <<3157, 3158>>, <<3170, 3171>>, <<3201, 3201>>, <<3260, 3260>>, <<3263, 3263>>, <<3270, 3270>>,
       <<3276, 3277>>, <<3298, 3299>>, <<3328, 3329>>, <<3387, 3388>>, <<3393, 3396>>, <<3405, 3405>>,
       <<3426, 3427>>, <<3457, 3457>>, <<3530, 3530>>, <<3538, 3540>>, <<3542, 3542>>, <<3633, 3633>>,
       <<3636, 3642>>, <<3654, 3662>>, <<3761, 3761>>, <<3764, 3772>>, <<3782, 3782>>, <<3784, 3789>>,
       <<3864, 3865>>, <<3893, 3893>>, <<3895, 3895>>, <<3897, 3897>>, <<3953, 3966>>, <<3968, 3972>>,
       <<3974, 3975>>, <<3981, 3991>>, <<3993, 4028>>, <<4038, 4038>>, <<4141, 4144>>, <<4146, 4151>>,
       <<4153, 4154>>, <<4157, 4158>>, <<4184, 4185>>, <<4190, 4192>>, <<4209, 4212>>, <<4226, 4226>>,
       <<4229, 4230>>, <<4237, 4237>>, <<4253, 4253>>, <<4348, 4348>>, <<4957, 4959>>, <<5906, 5908>>,
       <<5938, 5939>>, <<5970, 5971>>, <<6002, 6003>>, <<6068, 6069>>, <<6071, 6077>>, <<6086, 6086>>,
       <<6089, 6099>>, <<6103, 6103>>, <<6109, 6109>>, <<6155, 6159>>, <<6211, 6211>>, <<6277, 6278>>,
       <<6313, 6313>>, <<6432, 6434>>, <<6439, 6440>>, <<6450, 6450>>, <<6457, 6459>>, <<6679, 6680>>,
       <<6683, 6683>>, <<6742, 6742>>, <<6744, 6750>>, <<6752, 6752>>, <<6754, 6754>>, <<6757, 6764>>,
       <<6771, 6780>>, <<6783, 6783>>, <<6823, 6823>>, <<6832, 6862>>, <<6912, 6915>>, <<6964, 6964>>,
       <<6966, 6970>>, <<6972, 6972>>, <<6978, 6978>>, <<7019, 7027>>, <<7040, 7041>>, <<7074, 7077>>,
       <<7080, 7081>>, <<7083, 7085>>, <<7142, 7142>>, <<7144, 7145>>, <<7149, 7149>>, <<7151, 7153>>,
       <<7212, 7219>>, <<7222, 7223>>, <<7288, 7293>>, <<7376, 7378>>, <<7380, 7392>>, <<7394, 7400>>,
       <<7405, 7405>>, <<7412, 7412>>, <<7416, 7417>>, <<7468, 7530>>, <<7544, 7544>>, <<7579, 7679>>,
       <<8125, 8125>>, <<8127, 8129>>, <<8141, 8143>>, <<8157, 8159>>, <<8173, 8175>>, <<8189, 8190>>,
       <<8203, 8207>>, <<8216, 8217>>, <<8228, 8228>>, <<8231, 8231>>, <<8234, 8238>>, <<8288, 8292>>,
       <<8294, 8303>>, <<8305, 8305>>, <<8319, 8319>>, <<8336, 8348>>, <<8400, 8432>>, <<11388, 11389>>,
       <<11503, 11505>>, <<11631, 11631>>, <<11647, 11647>>, <<11744, 11775>>, <<11823, 11823>>, <<12293, 12293>>,
       <<12330, 12333>>, <<12337, 12341>>, <<12347, 12347>>, <<12441, 12446>>, <<12540, 12542>>, <<40981, 40981>>,
       <<42232, 42237>>, <<42508, 42508>>, <<42607, 42610>>, <<42612, 42621>>, <<42623, 42623>>, <<42652, 42655>>,
       <<42736, 42737>>, <<42752, 42785>>, <<42864, 42864>>, <<42888, 42890>>, <<42994, 42996>>, <<43000, 43001>>,
       <<43010, 43010>>, <<43014, 43014>>, <<43019, 43019>>, <<43045, 43046>>, <<43052, 43052>>, <<43204, 43205>>,
       <<43232, 43249>>, <<43263, 43263>>, <<43302, 43309>>, <<43335, 43345>>, <<43392, 43394>>, <<43443, 43443>>,
       <<43446, 43449>>, <<43452, 43453>>, <<43471, 43471>>, <<43493, 43494>>, <<43561, 43566>>, <<43569, 43570>>,
       <<43573, 43574>>, <<43587, 43587>>, <<43596, 43596>>, <<43632, 43632>>, <<43644, 43644>>, <<43696, 43696>>,
       <<43698, 43700>>, <<43703, 43704>>, <<43710, 43711>>, <<43713, 43713>>, <<43741, 43741>>, <<43756, 43757>>,
       <<43763, 43764>>, <<43766, 43766>>, <<43867, 43871>>, <<43881, 43883>>, <<44005, 44005>>, <<44008, 44008>>,
       <<44013, 44013>>, <<64286, 64286>>, <<64434, 64450>>, <<65024, 65039>>, <<65043, 65043>>, <<65056, 65071>>,
       <<65106, 65106>>, <<65109, 65109>>, <<65279, 65279>>, <<65287, 65287>>, <<65294, 65294>>, <<65306, 65306>>,
       <<65342, 65342>>, <<65344, 65344>>, <<65392, 65392>>, <<65438, 65439>>, <<65507, 65507>>, <<65529, 65531>>,
       <<66045, 66045>>, <<66272, 66272>>, <<66422, 66426>>, <<67456, 67461>>, <<67463, 67504>>, <<67506, 67514>>,
       <<68097, 68099>>, <<68101, 68102>>, <<68108, 68111>>, <<68152, 68154>>, <<68159, 68159>>, <<68325, 68326>>,
       <<68900, 68903>>, <<69291, 69292>>, <<69446, 69456>>, <<69506, 69509>>, <<69633, 69633>>, <<69688, 69702>>,
       <<69744, 69744>>, <<69747, 69748>>, <<69759, 69761>>, <<69811, 69814>>, <<69817, 69818>>, <<69821, 69821>>,
       <<69826, 69826>>, <<69837, 69837>>, <<69888, 69890>>, <<69927, 69931>>, <<69933, 69940>>, <<70003, 70003>>,
       <<70016, 70017>>, <<70070, 70078>>, <<70089, 70092>>, <<70095, 70095>>, <<70191, 70193>>, <<70196, 70196>>,
       <<70198, 70199>>, <<70206, 70206>>, <<70367, 70367>>, <<70371, 70378>>, <<70400, 70401>>, <<70459, 70460>>,
       <<70464, 70464>>, <<70502, 70508>>, <<70512, 70516>>, <<70712, 70719>>, <<70722, 70724>>, <<70726, 70726>>,
       <<70750, 70750>>, <<70835, 70840>>, <<70842, 70842>>, <<70847, 70848>>, <<70850, 70851>>, <<71090, 71093>>,
       <<71100, 71101>>, <<71103, 71104>>, <<71132, 71133>>, <<71219, 71226>>, <<71229, 71229>>, <<71231, 71232>>,
       <<71339, 71339>>, <<71341, 71341>>, <<71344, 71349>>, <<71351, 71351>>, <<71453, 71455>>, <<71458, 71461>>,
       <<71463, 71467>>, <<71727, 71735>>, <<71737, 71738>>, <<71995, 71996>>, <<71998, 71998>>, <<72003, 72003>>,
       <<72148, 72151>>, <<72154, 72155>>, <<72160, 72160>>, <<72193, 72202>>, <<72243, 72248>>, <<72251, 72254>>,
       <<72263, 72263>>, <<72273, 72278>>, <<72281, 72283>>, <<72330, 72342>>, <<72344, 72345>>, <<72752, 72758>>,
       <<72760, 72765>>, <<72767, 72767>>, <<72850, 72871>>, <<72874, 72880>>, <<72882, 72883>>, <<72885, 72886>>,
       <<73009, 73014>>, <<73018, 73018>>, <<73020, 73021>>, <<73023, 73029>>, <<73031, 73031>>, <<73104, 73105>>,
       <<73109, 73109>>, <<73111, 73111>>, <<73459, 73460>>, <<78896, 78904>>, <<92912, 92916>>, <<92976, 92982>>,
       <<92992, 92995>>, <<94031, 94031>>, <<94095, 94111>>, <<94176, 94177>>, <<94179, 94180>>, <<110576, 110579>>,
       <<110581, 110587>>, <<110589, 110590>>, <<113821, 113822>>, <<113824, 113827>>, <<118528, 118573>>, <<118576, 118598>>,
       <<119143, 119145>>, <<119155, 119170>>, <<119173, 119179>>, <<119210, 119213>>, <<119362, 119364>>, <<121344, 121398>>,
       <<121403, 121452>>, <<121461, 121461>>, <<121476, 121476>>, <<121499, 121503>>, <<121505, 121519>>, <<122880, 122886>>,
       <<122888, 122904>>, <<122907, 122913>>, <<122915, 122916>>, <<122918, 122922>>, <<123184, 123197>>, <<123566, 123566>>,
       <<123628, 123631>>, <<125136, 125142>>, <<125252, 125259>>, <<127995, 127999>>, <<917505, 917505>>, <<917536, 917631>>,
       <<917760, 917999>> >>

\* The cased characters that are not case-ignorable, as intervals.
Cased ==
    << <<65, 90>>, <<97, 122>>, <<170, 170>>, <<181, 181>>, <<186, 186>>, <<192, 214>>,
       <<216, 246>>, <<248, 442>>, <<444, 447>>, <<452, 659>>, <<661, 687>>, <<880, 883>>,
       <<886, 887>>, <<891, 893>>, <<895, 895>>, <<902, 902>>, <<904, 906>>, <<908, 908>>,
       <<910, 929>>, <<931, 1013>>, <<1015, 1153>>, <<1162, 1327>>, <<1329, 1366>>, <<1376, 1416>>,
       <<4256, 4293>>, <<4295, 4295>>, <<4301, 4301>>, <<4304, 4346>>, <<4349, 4351>>, <<5024, 5109>>,
       <<5112, 5117>>, <<7296, 7304>>, <<7312, 7354>>, <<7357, 7359>>, <<7424, 7467>>, <<7531, 7543>>,
       <<7545, 7578>>, <<7680, 7957>>, <<7960, 7965>>, <<7968, 8005>>, <<8008, 8013>>, <<8016, 8023>>,
       <<8025, 8025>>, <<8027, 8027>>, <<8029, 8029>>, <<8031, 8061>>, <<8064, 8116>>, <<8118, 8124>>,
       <<8126, 8126>>, <<8130, 8132>>, <<8134, 8140>>, <<8144, 8147>>, <<8150, 8155>>, <<8160, 8172>>,
       <<8178, 8180>>, <<8182, 8188>>, <<8450, 8450>>, <<8455, 8455>>, <<8458, 8467>>, <<8469, 8469>>,
       <<8473, 8477>>, <<8484, 8484>>, <<8486, 8486>>, <<8488, 8488>>, <<8490, 8493>>, <<8495, 8500>>,
       <<8505, 8505>>, <<8508, 8511>>, <<8517, 8521>>, <<8526, 8526>>, <<8544, 8575>>, <<8579, 8580>>,
       <<9398, 9449>>, <<11264, 11387>>, <<11390, 11492>>, <<11499, 11502>>, <<11506, 11507>>, <<11520, 11557>>,
       <<11559, 11559>>, <<11565, 11565>>, <<42560, 42605>>, <<42624, 42651>>, <<42786, 42863>>, <<42865, 42887>>,
       <<42891, 42894>>, <<42896, 42954>>, <<42960, 42961>>, <<42963, 42963>>, <<42965, 42969>>, <<42997, 42998>>,
       <<43002, 43002>>, <<43824, 43866>>, <<43872, 43880>>, <<43888, 43967>>, <<64256, 64262>>, <<64275, 64279>>,
       <<65313, 65338>>, <<65345, 65370>>, <<66560, 66639>>, <<66736, 66771>>, <<66776, 66811>>, <<66928, 66938>>,
       <<66940, 66954>>, <<66956, 66962>>, <<66964, 66965>>, <<66967, 66977>>, <<66979, 66993>>, <<66995, 67001>>,
       <<67003, 67004>>, <<68736, 68786>>, <<68800, 68850>>, <<71840, 71903>>, <<93760, 93823>>, <<119808, 119892>>,
       <<119894, 119964>>, <<119966, 119967>>, <<119970, 119970>>, <<119973, 119974>>, <<119977, 119980>>, <<119982, 119993>>,
       <<119995, 119995>>, <<119997, 120003>>, <<120005, 120069>>, <<120071, 120074>>, <<120077, 120084>>, <<120086, 120092>>,
       <<120094, 120121>>, <<120123, 120126>>, <<120128, 120132>>, <<120134, 120134>>, <<120138, 120144>>, <<120146, 120485>>,
       <<120488, 120512>>, <<120514, 120538>>, <<120540, 120570>>, <<120572, 120596>>, <<120598, 120628>>, <<120630, 120654>>,
       <<120656, 120686>>, <<120688, 120712>>, <<120714, 120744>>, <<120746, 120770>>, <<120772, 120779>>, <<122624, 122633>>,
       <<122635, 122654>>, <<125184, 125251>>, <<127280, 127305>>, <<127312, 127337>>, <<127344, 127369>> >>

\* The code points of LowerRanges, each with its lower-case code point.
LowerMapping ==
    UNION { { <<LowerRanges[i][1] + k * LowerRanges[i][3],
                LowerRanges[i][1] + k * LowerRanges[i][3] + LowerRanges[i][4]>> :
                    k \in 0..((LowerRanges[i][2] - LowerRanges[i][1]) \div LowerRanges[i][3]) } :
            i \in 1..Len(LowerRanges) }

HasLower == { p[1] : p \in LowerMapping }

ToLower == [c \in HasLower |-> (CHOOSE p \in LowerMapping : p[1] = c)[2]]

\* str.lower() of the one-character string c, as a string; the lower() of
\* U+0130 is the two characters U+0069 U+0307.
lowerChar(c) ==
    IF c = 304 THEN <<105, 775>>
    ELSE IF c \in HasLower THEN <<ToLower[c]>>
    ELSE <<c>>

\* Every character of s[a..b] is case-ignorable.
Skipped(s, a, b) == \A k \in a..b : InRanges(s[k], CaseIgnorable)

\* The capital sigma (U+03A3, 931) at s[i] is final: the nearest character before it that
\* is not case-ignorable is cased, and the nearest such character after it,
\* if there is one, is not cased.  Its lower() is then U+03C2, else U+03C3.
handle_capital_sigma(s, i) ==
    LET final_sigma ==
            /\ \E j \in 1..(i - 1) :
                    /\ Skipped(s, j + 1, i - 1)
                    /\ ~InRanges(s[j], CaseIgnorable)
                    /\ InRanges(s[j], Cased)
            /\ ~\E k \in (i + 1)..Len(s) :
                    /\ Skipped(s, i + 1, k - 1)
                    /\ ~InRanges(s[k], CaseIgnorable)
                    /\ InRanges(s[k], Cased)
    IN IF final_sigma THEN 962 ELSE 963

RECURSIVE lowerFrom(_, _)
lowerFrom(s, i) ==
    IF i > Len(s) THEN << >>
    ELSE (IF s[i] = 931 THEN <<handle_capital_sigma(s, i)>>
          ELSE lowerChar(s[i])) \o lowerFrom(s, i + 1)

\* str.lower()
lower(s) == lowerFrom(s, 1)

RECURSIVE lstrip(_)
lstrip(s) ==
    IF s = <<>> THEN s
    ELSE IF Head(s) \in Whitespace THEN lstrip(Tail(s))
    ELSE s

RECURSIVE rstrip(_)
rstrip(s) ==
    IF s = <<>> THEN s
    ELSE IF s[Len(s)] \in Whitespace THEN rstrip(SubSeq(s, 1, Len(s) - 1))
    ELSE s

strip(s) == rstrip(lstrip(s))

\* Python values that reach str() or .strip(): a str or None.
PyStr(s) == [t |-> "str", v |-> s]

NoneValue == [t |-> "None", v |-> <<>>]

\* str(x); str(None) is "None"
str(x) == IF x.t = "None" THEN <<78, 111, 110, 101>> ELSE x.v

---------------------------------------------------------------------------
(* Outcomes of a call: a returned value or a raised exception.             *)
(* reads counts the accesses of self.data the call made.                   *)

Returned(v, n) == [kind |-> "return", value |-> v, reads |-> n]

Raised(e) == [kind |-> e, value |-> <<>>, reads |-> 0]

---------------------------------------------------------------------------
(* WeatherDataset *)

\* dict: a sequence of [key, value] entries in insertion order, keys unique.
HasKey(data, key) == \E i \in 1..Len(data) : data[i].key = key

GetItem(data, key) == data[CHOOSE i \in 1..Len(data) : data[i].key = key].value

\* The text after "{location}" in the f-string of line 49: a fullwidth colon,
\* "sunny", a fullwidth comma, 25 degrees C, a fullwidth comma, "light breeze".
FALLBACK_DESCRIPTOR == <<65306, 26228, 65292, 50, 53, 176, 67, 65292, 24494, 39118>>

lookupValidatesLate(data, loc) ==
    LET key == lower(strip(loc)) IN
    IF HasKey(data, key) THEN Returned(GetItem(data, key), 2)
    ELSE IF key = <<>> THEN [kind |-> "ValueError", value |-> <<>>, reads |-> 1]
    ELSE Returned(loc \o FALLBACK_DESCRIPTOR, 1)

lookupCaseSensitive(data, loc) ==
    LET key == strip(loc) IN
    IF key = <<>> THEN Raised("ValueError")
    ELSE IF HasKey(data, key) THEN Returned(GetItem(data, key), 2)
    ELSE Returned(loc \o FALLBACK_DESCRIPTOR, 1)

lookup(data, loc) ==
    LET key == lower(strip(loc)) IN
    IF key = <<>> THEN Raised("ValueError")
    ELSE IF HasKey(data, key) THEN Returned(GetItem(data, key), 2)
    ELSE Returned(loc \o FALLBACK_DESCRIPTOR, 1)

\* self.data after lookup: lookup assigns nothing.
dataAfterLookupCaching(data, loc) ==
    LET r == lookup(data, loc) IN
    IF r.kind = "return" /\ r.reads = 1
    THEN Append(data, [key |-> lower(strip(loc)), value |-> r.value])
    ELSE data

dataAfterLookupEvicting(data, loc) ==
    SelectSeq(data, LAMBDA e : e.key # lower(strip(loc)))

dataAfterLookup(data, loc) == data

\* dataset.data.keys(), as the sequence iteration yields
keys(data) == [i \in 1..Len(data) |-> data[i].key]

Entry(k, v) == [key |-> k, value |-> v]

\* Lines 52-60.  The keys are Beijing, Shanghai, Guangzhou, Shenzhen and
\* Chengdu; each value is the key, a fullwidth colon and a description.
SIMULATED_DATASET ==
    << Entry(<<21271, 20140>>,
             <<21271, 20140, 65306, 22810, 20113, 65292, 50, 50, 176, 67, 65292, 19996, 21271, 39118, 32, 51, 32, 32423>>),
       Entry(<<19978, 28023>>,
             <<19978, 28023, 65306, 23567, 38632, 65292, 50, 56, 176, 67, 65292, 28287, 24230, 32, 56, 48, 37>>),
       Entry(<<24191, 24030>>,
             <<24191, 24030, 65306, 38453, 38632, 65292, 51, 48, 176, 67, 65292, 35199, 21335, 39118, 32, 50, 32, 32423>>),
       Entry(<<28145, 22323>>,
             <<28145, 22323, 65306, 38452, 65292, 50, 57, 176, 67, 65292, 28287, 24230, 32, 55, 48, 37>>),
       Entry(<<25104, 37117>>,
             <<25104, 37117, 65306, 23567, 38632, 65292, 50, 52, 176, 67, 65292, 35199, 39118, 32, 49, 32, 32423>>) >>

\* Other tables a caller can construct with WeatherDataset(...): the empty
\* one of the test suite, one with lower-case keys, one with keys as typed.
EmptyTable == << >>

\* keys "a", "a a", "z", "i" + U+0307, a-ring, "a" + final sigma,
\* "a" + sigma + "a", fullwidth a
LatinTable ==
    << Entry(<<97>>, <<97, 65306, 38632>>),
       Entry(<<97, 32, 97>>, <<97, 32, 97, 65306, 38654>>),
       Entry(<<122>>, <<122, 65306, 39118>>),
       Entry(<<105, 775>>, <<105, 775, 65306, 38718>>),
       Entry(<<229>>, <<229, 65306, 38634>>),
       Entry(<<97, 962>>, <<97, 962, 65306, 26228>>),
       Entry(<<97, 963, 97>>, <<97, 963, 97, 65306, 38452>>),
       Entry(<<65345>>, <<65345, 65306, 38647>>) >>

\* keys "A", "aa"
RawKeyTable ==
    << Entry(<<65>>, <<65, 65306, 38634>>),
       Entry(<<97, 97>>, <<97, 97, 65306, 38649>>) >>

InitialDatasets ==
    [n \in {"SIMULATED_DATASET", "empty", "latin", "rawkey"} |->
        CASE n = "SIMULATED_DATASET" -> SIMULATED_DATASET
          [] n = "empty" -> EmptyTable
          [] n = "latin" -> LatinTable
          [] n = "rawkey" -> RawKeyTable]

DatasetNames == DOMAIN InitialDatasets

---------------------------------------------------------------------------
(* Inputs *)

RECURSIVE StringsUpTo(_)
StringsUpTo(n) ==
    IF n = 0 THEN {<< >>}
    ELSE LET shorter == StringsUpTo(n - 1) IN
         shorter \cup {Append(s, c) : s \in {t \in shorter : Len(t) = n - 1}, c \in Alphabet}

\* Locations: every string over Alphabet up to MaxLen; strings with a
\* lower-case letter; the curated names
\* plain, padded and unknown (Beijing, Shenzhen, Chengdu, the single
\* character "bei"); other whitespace; other cased letters (Z, U+0130,
\* A-ring, fullwidth A, sharp S, Cyrillic ZHE); capital sigma alone, final
\* after a cased letter, after a cased letter and an apostrophe, and between
\* cased letters.
Locations ==
    StringsUpTo(MaxLen)
        \cup { <<97>>, <<32, 97>>, <<97, 65>>, <<97, 32, 65>>,
               <<21271, 20140>>, <<32, 21271, 20140, 9>>, <<28145, 22323>>,
               <<25104, 37117, 10>>, <<21271>>, <<32, 21271, 32>>,
               <<12>>, <<12288, 160>>, <<12, 97, 12288>>,
               <<90>>, <<304>>, <<197>>, <<65313>>, <<7838>>, <<1046>>,
               <<931>>, <<65, 931>>, <<65, 39, 931, 32>>, <<65, 931, 65>>, <<913, 931, 32, 931>> }

\* dict: a sequence of <<name, value>> items
EmptyDict == << >>

dictHas(d, name) == \E i \in 1..Len(d) : d[i][1] = name

\* dict.get(name, default)
dictGet(d, name, default) ==
    IF dictHas(d, name) THEN d[CHOOSE i \in 1..Len(d) : d[i][1] = name][2]
    ELSE default

\* tool_call.arguments as the runtime supplies them: a dict, or (malformed) not a dict.
Dict(d) == [t |-> "dict", d |-> d]

NotADict == [t |-> "str", d |-> << >>]

\* Shanghai; " A"; two spaces; the empty string; Guangzhou and a space
ToolLocations ==
    { <<19978, 28023>>, <<32, 65>>, <<32, 32>>, << >>, <<24191, 24030, 32>> }

ToolArguments ==
    { Dict(<< <<"location", PyStr(s)>> >>) : s \in ToolLocations }
        \cup { Dict(EmptyDict),
               Dict(<< <<"location", NoneValue>> >>),
               NotADict }

ToolCallIds == {"call_1", "call_2"}

\* final_response.output_text: " X\n" and U+3000 "X" (X is U+597D), "", " ", None
OutputTexts ==
    { PyStr(<<32, 22909, 10>>), PyStr(<<12288, 22909>>), PyStr(<< >>), PyStr(<<32>>),
      NoneValue }

---------------------------------------------------------------------------
(* _resolve_weather_tool and the tool_resolver lambda *)

_resolve_weather_tool_caller(data, arguments, callerLoc) ==
    IF arguments.t # "dict" THEN Raised("AttributeError")
    ELSE lookup(data, callerLoc)

_resolve_weather_tool(data, arguments, callerLoc) ==
    IF arguments.t # "dict" THEN Raised("AttributeError")
    ELSE lookup(data, str(dictGet(arguments.d, "location", PyStr(<< >>))))

NoCall == [id |-> "", arguments |-> NotADict]

NoOutput == [tool_call_id |-> "", output |-> << >>]

tool_resolver(tool_call, out) ==
    [tool_call_id |-> tool_call.id, output |-> out.value]

---------------------------------------------------------------------------
(* State *)

\* A completed call: the operation, the dataset it read, its argument and
\* outcome; keys is what iteration yielded, text the runtime's output_text.
\* again: the call completed just before it looked up the same location in
\* the same dataset.  afterSynthetic: the call completed just before an
\* iteration was answered with the dataset's synthetic fallback.
Completed(op, ds, loc, outcome, again) ==
    [op |-> op, ds |-> ds, loc |-> loc, outcome |-> outcome,
     keys |-> << >>, text |-> << >>, again |-> again, afterSynthetic |-> FALSE]

NoRet == Completed("none", "", << >>, Raised("none"), FALSE)

\* The last completed call was answered with the synthetic fallback of dataset n.
ServedSynthetic(n) ==
    /\ ret.op \in {"lookup", "query"}
    /\ ret.ds = n
    /\ ret.outcome.kind = "return"
    /\ ret.outcome.reads = 1

Init ==
    /\ datasets = InitialDatasets
    /\ pc = "idle"
    /\ location = << >>
    /\ client = "None"
    /\ creates = 0
    /\ streams = 0
    /\ answered = 0
    /\ toolCall = NoCall
    /\ toolOutput = NoOutput
    /\ failedAt = ""
    /\ exc = ""
    /\ fallbackCalls = 0
    /\ ret = NoRet

QueryReset ==
    /\ pc' = "idle"
    /\ location' = << >>
    /\ client' = "None"
    /\ creates' = 0
    /\ streams' = 0
    /\ answered' = 0
    /\ toolCall' = NoCall
    /\ toolOutput' = NoOutput
    /\ failedAt' = ""
    /\ exc' = ""
    /\ fallbackCalls' = 0

Idle == pc \in {"idle", "done"}

\* The call completed just before the one now starting looked up loc in dataset n.
Again(n, loc) ==
    /\ Idle
    /\ ret.op \in {"lookup", "query"}
    /\ ret.ds = n
    /\ ret.loc = loc

---------------------------------------------------------------------------
(* WeatherDataset.lookup and iter_available_locations called directly *)

Lookup(n, loc) ==
    /\ Idle
    /\ QueryReset
    /\ ret' = Completed("lookup", n, loc, lookup(datasets[n], loc), Again(n, loc))
    /\ datasets' = [datasets EXCEPT ![n] = dataAfterLookup(datasets[n], loc)]

IterAvailableLocations(n) ==
    /\ Idle
    /\ QueryReset
    /\ ret' = [Completed("iter", n, << >>, Raised("none"), FALSE)
                    EXCEPT !.keys = keys(datasets[n]),
                           !.afterSynthetic = ServedSynthetic(n)]
    /\ UNCHANGED datasets

---------------------------------------------------------------------------
(* query_weather, lines 110-132 *)

\* Exception classes a step of the try block can raise.  Line 131 catches the
\* subclasses of Exception; KeyboardInterrupt and SystemExit derive from
\* BaseException only.
ExceptionClasses == {"RuntimeError", "AttributeError", "ValueError", "UnboundLocalError"}

BaseExceptionClasses == {"KeyboardInterrupt", "SystemExit"}

\* What a call into the runtime does: it returns, or raises.
Outcomes == {"ok", "RuntimeError", "KeyboardInterrupt"}

\* What the stream's __exit__ does: it returns a false value, returns a true
\* value (which suppresses the exception it was called with), or raises.
ExitOutcomes == {"False", "True", "RuntimeError", "KeyboardInterrupt"}

ExceptReusesToolOutput(step, e, before) ==
    /\ failedAt' = step
    /\ exc' = e
    /\ fallbackCalls' = before + 1
    /\ ret' = Completed("query", "SIMULATED_DATASET", location',
                         IF answered > 0
                         THEN Returned(toolOutput.output, 1)
                         ELSE lookup(datasets["SIMULATED_DATASET"], location'),
                         FALSE)
    /\ UNCHANGED datasets
    /\ pc' = "done"

ExceptReraises(step, e, before) ==
    /\ failedAt' = step
    /\ exc' = e
    /\ fallbackCalls' = before
    /\ ret' = Completed("query", "", location', Raised(e), FALSE)
    /\ UNCHANGED datasets
    /\ pc' = "done"

\* Lines 127-128: a step of the with block raises; the exception goes to the
\* stream's __exit__ before it can leave the block.
Raise(step, e) ==
    /\ pc' = "exit"
    /\ failedAt' = step
    /\ exc' = e
    /\ UNCHANGED <<fallbackCalls, ret, datasets>>

\* Lines 131-132: an exception of class e raised at `step` leaves the try
\* block.  `except Exception` catches it when e derives from Exception, and
\* the call then returns (or raises) what SIMULATED_DATASET.lookup(location)
\* does; any other exception leaves query_weather and line 132 is not run.
Except(step, e, before) ==
    /\ failedAt' = step
    /\ exc' = e
    /\ pc' = "done"
    /\ IF e \in ExceptionClasses
       THEN /\ fallbackCalls' = before + 1
            /\ ret' = Completed("query", "SIMULATED_DATASET", location',
                                lookup(datasets["SIMULATED_DATASET"], location'),
                                Again("SIMULATED_DATASET", location'))
            /\ datasets' = [datasets EXCEPT !["SIMULATED_DATASET"] =
                                dataAfterLookup(datasets["SIMULATED_DATASET"], location')]
       ELSE /\ fallbackCalls' = before
            /\ ret' = Completed("query", "", location', Raised(e), FALSE)
            /\ UNCHANGED datasets

\* Line 111: runtime_client = client or OpenAI().  OpenAI() is evaluated only
\* when client is None; it raises when the SDK is missing (the stub of lines
\* 18-22) or cannot be configured.
QueryWeather(loc, c, openai) ==
    /\ Idle
    /\ location' = loc
    /\ creates' = 0
    /\ streams' = 0
    /\ answered' = 0
    /\ toolCall' = NoCall
    /\ toolOutput' = NoOutput
    /\ IF c = "None" /\ openai # "ok"
       THEN /\ client' = "None"
            /\ Except("client", openai, 0)
       ELSE /\ client' = (IF c = "None" THEN "Handle" ELSE c)
            /\ pc' = "create"
            /\ failedAt' = ""
            /\ exc' = ""
            /\ fallbackCalls' = 0
            /\ ret' = NoRet
            /\ UNCHANGED datasets

AgentsCreateRetrying(outcome) ==
    /\ pc = "create"
    /\ UNCHANGED <<location, client, streams, answered, toolCall, toolOutput>>
    /\ creates' = creates + 1
    /\ IF outcome = "ok"
       THEN /\ pc' = "stream"
            /\ UNCHANGED <<failedAt, exc, fallbackCalls, ret, datasets>>
       ELSE IF creates < 2
            THEN UNCHANGED <<pc, failedAt, exc, fallbackCalls, ret, datasets>>
            ELSE Except("agents.create", outcome, fallbackCalls)

\* Line 112: a client without the agents attribute raises AttributeError
\* before any call leaves.
AgentsCreate(outcome) ==
    /\ pc = "create"
    /\ UNCHANGED <<location, client, streams, answered, toolCall, toolOutput>>
    /\ IF client = "Dummy"
       THEN /\ creates' = creates
            /\ Except("agents.create", "AttributeError", fallbackCalls)
       ELSE /\ creates' = creates + 1
            /\ IF outcome = "ok"
               THEN /\ pc' = "stream"
                    /\ UNCHANGED <<failedAt, exc, fallbackCalls, ret, datasets>>
               ELSE Except("agents.create", outcome, fallbackCalls)

\* Lines 119-126: calling stream(...) and entering the context manager it
\* returns; when either raises, __exit__ is not called.  outcome
\* "AttributeError": the attribute lookup runtime_client.agents.responses.stream
\* fails (the case of the comment of lines 114-118) and stream is not called.
StreamOpen(outcome) ==
    /\ pc = "stream"
    /\ UNCHANGED <<location, client, creates, answered, toolCall, toolOutput>>
    /\ IF outcome = "AttributeError"
       THEN /\ streams' = streams
            /\ Except("stream", outcome, fallbackCalls)
       ELSE /\ streams' = streams + 1
            /\ IF outcome = "ok"
               THEN /\ pc' = "streaming"
                    /\ UNCHANGED <<failedAt, exc, fallbackCalls, ret, datasets>>
               ELSE Except("stream", outcome, fallbackCalls)

\* Lines 122-125: the runtime issues a tool call and the lambda answers it.
\* When the lambda raises, the exception goes to the runtime that called it:
\* the runtime lets it out of until_done (propagates), or catches it and goes
\* on with the stream.
ToolCall(id, arguments, propagates) ==
    /\ pc = "streaming"
    /\ answered < MaxToolCalls
    /\ LET call == [id |-> id, arguments |-> arguments]
           out == _resolve_weather_tool(datasets["SIMULATED_DATASET"], arguments, location)
       IN /\ toolCall' = call
          /\ UNCHANGED <<location, client, creates, streams>>
          /\ IF out.kind = "return"
             THEN /\ toolOutput' = tool_resolver(call, out)
                  /\ answered' = answered + 1
                  /\ datasets' = [datasets EXCEPT !["SIMULATED_DATASET"] =
                        dataAfterLookup(datasets["SIMULATED_DATASET"],
                            str(dictGet(arguments.d, "location", PyStr(<< >>))))]
                  /\ UNCHANGED <<pc, failedAt, exc, fallbackCalls, ret>>
             ELSE /\ toolOutput' = NoOutput
                  /\ answered' = answered
                  /\ IF propagates
                     THEN Raise("tool_resolver", out.kind)
                     ELSE UNCHANGED <<pc, failedAt, exc, fallbackCalls, ret, datasets>>

\* Line 127: the stream has no further tool call to resolve once until_done
\* returns or raises.
UntilDone(outcome) ==
    /\ pc = "streaming"
    /\ toolCall' = NoCall
    /\ toolOutput' = NoOutput
    /\ UNCHANGED <<location, client, creates, streams, answered>>
    /\ IF outcome = "ok"
       THEN /\ pc' = "final"
            /\ UNCHANGED <<failedAt, exc, fallbackCalls, ret, datasets>>
       ELSE Raise("until_done", outcome)

\* Line 128: final_response is assigned when get_final_response returns.
GetFinalResponse(outcome) ==
    /\ pc = "final"
    /\ UNCHANGED <<location, client, creates, streams, answered, toolCall, toolOutput>>
    /\ IF outcome = "ok"
       THEN /\ pc' = "exit"
            /\ UNCHANGED <<failedAt, exc, fallbackCalls, ret, datasets>>
       ELSE Raise("get_final_response", outcome)

\* Leaving the with block of lines 119-128: the stream's __exit__ is called,
\* with the exception the block raised if it raised one.  An exception
\* __exit__ raises replaces that one and leaves the try block.  When __exit__
\* returns, the block's exception leaves the try block unless the value
\* returned is true; it is then suppressed and execution goes on at line 130
\* with final_response unassigned.  After a block that completed, the value
\* returned is ignored.
StreamExit(outcome) ==
    /\ pc = "exit"
    /\ toolCall' = NoCall
    /\ toolOutput' = NoOutput
    /\ UNCHANGED <<location, client, creates, streams, answered>>
    /\ IF outcome \notin {"False", "True"}
       THEN Except("exit", outcome, fallbackCalls)
       ELSE IF exc # "" /\ outcome = "False"
            THEN Except(failedAt, exc, fallbackCalls)
            ELSE /\ pc' = "text"
                 /\ exc' = ""
                 /\ UNCHANGED <<failedAt, fallbackCalls, ret, datasets>>

finalTextUntrimmed(text) == text.v

\* Line 130: final_response.output_text.strip()
finalText(text) == strip(text.v)

\* Line 130: reading final_response raises UnboundLocalError when a step of
\* the with block raised before line 128 assigned it (failedAt names the
\* step); None has no strip(), which raises AttributeError.
ReturnOutputText(text) ==
    /\ pc = "text"
    /\ UNCHANGED <<location, client, creates, streams, answered, toolCall, toolOutput>>
    /\ IF failedAt # ""
       THEN Except("final_response", "UnboundLocalError", fallbackCalls)
       ELSE IF text.t = "str"
       THEN /\ ret' = [Completed("query", "", location,
                                 Returned(finalText(text), 0), FALSE)
                            EXCEPT !.text = text.v]
            /\ pc' = "done"
            /\ UNCHANGED <<failedAt, exc, fallbackCalls, datasets>>
       ELSE Except("output_text", "AttributeError", fallbackCalls)

\* client and, when client is None, what OpenAI() does
ClientCases ==
    { <<"None", o>> : o \in Outcomes } \cup { <<"Dummy", "ok">>, <<"Handle", "ok">> }

Next ==
    \/ \E n \in DatasetNames, loc \in Locations : Lookup(n, loc)
    \/ \E n \in DatasetNames : IterAvailableLocations(n)
    \/ \E loc \in Locations, cc \in ClientCases : QueryWeather(loc, cc[1], cc[2])
    \/ \E outcome \in Outcomes : AgentsCreate(outcome)
    \/ \E outcome \in Outcomes \cup {"AttributeError"} : StreamOpen(outcome)
    \/ \E id \in ToolCallIds, arguments \in ToolArguments, propagates \in BOOLEAN :
            ToolCall(id, arguments, propagates)
    \/ \E outcome \in Outcomes : UntilDone(outcome)
    \/ \E outcome \in Outcomes : GetFinalResponse(outcome)
    \/ \E outcome \in ExitOutcomes : StreamExit(outcome)
    \/ \E text \in OutputTexts : ReturnOutputText(text)

Spec == Init /\ [][Next]_vars

---------------------------------------------------------------------------
(* Properties *)

\* s is empty after trimming: every character of it is whitespace.
Blank(s) == \A i \in 1..Len(s) : s[i] \in Whitespace

\* t is s without its leading and trailing whitespace.
IsTrimOf(t, s) ==
    \E i \in 0..Len(s), j \in 0..Len(s) :
        /\ i + j <= Len(s)
        /\ t = SubSeq(s, i + 1, Len(s) - j)
        /\ \A k \in 1..i : s[k] \in Whitespace
        /\ \A k \in (Len(s) - j + 1)..Len(s) : s[k] \in Whitespace
        /\ t # << >> => (t[1] \notin Whitespace /\ t[Len(t)] \notin Whitespace)

QueryDone == pc = "done" /\ ret.op = "query"

\* C1 as claimed: when the remote interaction fails at any step, in any way,
\* and the location is not blank, query_weather returns exactly
\* SIMULATED_DATASET.lookup(location).
C1_AnyFailureFallsBack ==
    (pc = "done" /\ failedAt # "" /\ ~Blank(location)) =>
        /\ ret.op = "query"
        /\ ret.loc = location
        /\ ret.outcome.kind = "return"
        /\ ret.outcome.value = lookup(SIMULATED_DATASET, location).value

\* C1 amended: when the remote interaction fails and the exception that
\* leaves the try block derives from Exception (the failing step's own, the
\* one the stream's __exit__ raised in its place, or the UnboundLocalError of
\* line 130 after __exit__ suppressed it) and the location is not blank,
\* query_weather returns exactly SIMULATED_DATASET.lookup(location), however
\* many tool calls were answered before the failure.
C1_ExceptionFallsBack ==
    (pc = "done" /\ failedAt # "" /\ exc \in ExceptionClasses /\ ~Blank(location)) =>
        /\ ret.op = "query"
        /\ ret.loc = location
        /\ ret.outcome.kind = "return"
        /\ ret.outcome.value = lookup(SIMULATED_DATASET, location).value

C1_Witness ==
    /\ QueryDone
    /\ failedAt = "get_final_response"
    /\ exc = "RuntimeError"
    /\ answered >= 2
    /\ ~Blank(location)
    /\ ret.outcome.reads = 1

\* C2 as claimed: query_weather raises exactly when the remote path failed
\* and the location is blank, and what it raises then is lookup's
\* ValueError; in every other case it returns a string.
C2_RaisesOnlyBlankFallback ==
    QueryDone =>
        /\ (ret.outcome.kind # "return") <=> (failedAt # "" /\ Blank(location))
        /\ ret.outcome.kind \in {"return", "ValueError"}

\* C2 amended: query_weather raises exactly when an exception derived from
\* Exception left the try block and the location is blank (it raises
\* lookup's ValueError), or an exception not derived from Exception left the
\* try block (that exception leaves query_weather and line 132 is not run);
\* in every other case it returns a string.  An exception the stream's
\* __exit__ suppresses does not leave the try block: line 130 then raises
\* UnboundLocalError, which does.
C2_RaisesBlankFallbackOrBaseException ==
    QueryDone =>
        /\ (ret.outcome.kind # "return") <=>
                \/ (exc \in ExceptionClasses /\ Blank(location))
                \/ exc \in BaseExceptionClasses
        /\ exc \in ExceptionClasses => ret.outcome.kind \in {"return", "ValueError"}
        /\ exc \in BaseExceptionClasses => (ret.outcome.kind = exc /\ fallbackCalls = 0)
        /\ exc = "" <=> failedAt = ""

C2_Witness ==
    /\ QueryDone
    /\ failedAt = "final_response"
    /\ exc = "UnboundLocalError"
    /\ answered = 1
    /\ location = <<32, 32>>
    /\ ret.outcome.kind = "ValueError"
    /\ fallbackCalls = 1

\* C3: lookup raises ValueError if and only if the location is blank, and
\* then without reading the table; for every other string and every table,
\* the empty one included, it returns.
C3_LookupRaisesIffBlank ==
    ret.op = "lookup" =>
        /\ (ret.outcome.kind = "ValueError") <=> Blank(ret.loc)
        /\ ret.outcome.kind \in {"return", "ValueError"}
        /\ ret.outcome.kind = "ValueError" => ret.outcome.reads = 0

C3_Witness ==
    /\ ret.op = "lookup"
    /\ ret.ds = "empty"
    /\ ret.loc = <<32, 32, 32>>
    /\ ret.outcome.kind = "ValueError"
    /\ ret.outcome.reads = 0

\* C4: for a non-blank location that is no entry of the dataset, lookup
\* returns the whitespace-trimmed location followed by the fixed descriptor.
C4_SyntheticUsesTrimmedLocation ==
    (/\ ret.op = "lookup"
     /\ ~Blank(ret.loc)
     /\ ~HasKey(InitialDatasets[ret.ds], lower(strip(ret.loc)))) =>
        /\ ret.outcome.kind = "return"
        /\ \E t \in Locations :
            /\ IsTrimOf(t, ret.loc)
            /\ ret.outcome.value = t \o FALLBACK_DESCRIPTOR

\* C5 as claimed: a non-blank location whose trimmed, case-folded form equals
\* the normalized form of a table key gets that entry's literal, also when
\* the table stores the key in non-normalized form.
C5_NormalizedKeyMatches ==
    (ret.op = "lookup" /\ ~Blank(ret.loc)) =>
        \A i \in 1..Len(InitialDatasets[ret.ds]) :
            LET e == InitialDatasets[ret.ds][i] IN
            lower(strip(e.key)) = lower(strip(ret.loc)) =>
                /\ ret.outcome.kind = "return"
                /\ ret.outcome.value = e.value

\* C5 amended: a non-blank location whose trimmed, lower-cased form equals a
\* table key as the table stores it gets that entry's literal, never the
\* synthetic fallback; inputs that differ only in letter case or surrounding
\* whitespace therefore get the same result.
C5_StoredKeyMatches ==
    (ret.op = "lookup" /\ ~Blank(ret.loc)) =>
        \A i \in 1..Len(InitialDatasets[ret.ds]) :
            LET e == InitialDatasets[ret.ds][i] IN
            e.key = lower(strip(ret.loc)) =>
                /\ ret.outcome.kind = "return"
                /\ ret.outcome.value = e.value

C5_Witness ==
    /\ ret.op = "lookup"
    /\ ret.ds = "latin"
    /\ ret.loc = <<65, 931>>
    /\ ret.outcome.value = <<97, 962, 65306, 26228>>

\* C6: when every remote step succeeds, query_weather returns the runtime's
\* final text trimmed, for any location, and line 132 is not executed; line
\* 132 is executed only after a remote failure.
C6_SuccessReturnsTrimmedText ==
    QueryDone =>
        /\ failedAt = "" =>
            /\ ret.outcome.kind = "return"
            /\ IsTrimOf(ret.outcome.value, ret.text)
            /\ fallbackCalls = 0
        /\ fallbackCalls > 0 => failedAt # ""

C6_Witness ==
    /\ QueryDone
    /\ failedAt = ""
    /\ location = <<32>>
    /\ ret.text = <<32, 22909, 10>>
    /\ ret.outcome.value = <<22909>>
    /\ fallbackCalls = 0

\* C7 as claimed: agent creation and the response stream together are called
\* at most once during one invocation.
C7_AtMostOneOutboundCall == creates + streams <= 1

\* C7 amended: during one invocation agents.create is called at most once and
\* responses.stream at most once (at most two outbound calls), the stream
\* only after a create, and no call follows a failure.
C7_EachRemoteCallAtMostOnce ==
    /\ creates <= 1
    /\ streams <= 1
    /\ streams <= creates
    /\ failedAt = "client" => creates = 0
    /\ failedAt \in {"client", "agents.create"} => streams = 0

C7_Witness ==
    /\ QueryDone
    /\ failedAt = ""
    /\ creates = 1
    /\ streams = 1

\* C8: iter_available_locations yields exactly the table's keys in insertion
\* order, the same on every call, with no location that was answered by the
\* synthetic fallback.
C8_IterYieldsTableKeys ==
    ret.op = "iter" =>
        /\ Len(ret.keys) = Len(InitialDatasets[ret.ds])
        /\ \A i \in 1..Len(ret.keys) : ret.keys[i] = InitialDatasets[ret.ds][i].key

C8_Witness ==
    /\ ret.op = "iter"
    /\ ret.ds = "SIMULATED_DATASET"
    /\ ret.afterSynthetic
    /\ ret.keys = << <<21271, 20140>>, <<19978, 28023>>, <<24191, 24030>>,
                     <<28145, 22323>>, <<25104, 37117>> >>

\* The location argument as the runtime supplied it.
SuppliedLocation(arguments) == str(dictGet(arguments.d, "location", PyStr(<< >>)))

\* A tool output carries the identifier of the request it answers and the
\* lookup of the location the runtime supplied.  A request whose location is
\* missing or blank makes lookup raise ValueError: the resolver returns no
\* output for it, and the exception is in the runtime's hands (which catches
\* it and goes on with the stream) or has left until_done.
C9_Resolved ==
    /\ toolOutput # NoOutput =>
        /\ toolOutput.tool_call_id = toolCall.id
        /\ toolCall.arguments.t = "dict"
        /\ lookup(SIMULATED_DATASET, SuppliedLocation(toolCall.arguments)).kind = "return"
        /\ toolOutput.output =
                lookup(SIMULATED_DATASET, SuppliedLocation(toolCall.arguments)).value
    /\ (/\ toolCall # NoCall
        /\ toolCall.arguments.t = "dict"
        /\ Blank(SuppliedLocation(toolCall.arguments))) =>
            /\ lookup(SIMULATED_DATASET, SuppliedLocation(toolCall.arguments)).kind
                    = "ValueError"
            /\ toolOutput = NoOutput
            /\ \/ pc = "streaming" /\ failedAt = ""
               \/ pc = "exit" /\ failedAt = "tool_resolver" /\ exc = "ValueError"
    /\ failedAt = "tool_resolver" =>
            /\ pc \in {"exit", "text", "done"}
            /\ pc = "exit" => exc \in {"ValueError", "AttributeError"}
            /\ pc = "done" => (exc \in {"ValueError", "AttributeError"}
                                /\ fallbackCalls = 1)

\* Once the resolver's exception has left until_done the remote path is
\* over.  No further call is made and no tool call answered; the stream's
\* __exit__ is the only step left before lines 130-132, and the invocation
\* never returns the runtime's text: it ends with
\* SIMULATED_DATASET.lookup(location) when the exception leaves the try block,
\* when __exit__ raises an Exception in its place, and (through the
\* UnboundLocalError of line 130) when __exit__ suppresses it; it ends with
\* the exception __exit__ raised when that is no Exception.
C9_EndsRemotePath ==
    /\ (pc = "exit" /\ failedAt = "tool_resolver") =>
        /\ <<creates', streams', answered', location'>> =
                <<creates, streams, answered, location>>
        /\ \/ UNCHANGED vars
           \/ /\ pc' = "text"
              /\ failedAt' = "tool_resolver"
              /\ exc' = ""
              /\ fallbackCalls' = 0
           \/ /\ pc' = "done"
              /\ failedAt' \in {"tool_resolver", "exit"}
              /\ failedAt' = "tool_resolver" => exc' = exc
              /\ exc' \in ExceptionClasses
              /\ fallbackCalls' = 1
              /\ ret'.op = "query"
              /\ ret'.outcome = lookup(SIMULATED_DATASET, location)
           \/ /\ pc' = "done"
              /\ failedAt' = "exit"
              /\ exc' \in BaseExceptionClasses
              /\ fallbackCalls' = 0
              /\ ret'.op = "query"
              /\ ret'.outcome = Raised(exc')
    /\ (pc = "text" /\ failedAt = "tool_resolver") =>
        /\ <<creates', streams', answered', location'>> =
                <<creates, streams, answered, location>>
        /\ \/ UNCHANGED vars
           \/ /\ pc' = "done"
              /\ failedAt' = "final_response"
              /\ exc' = "UnboundLocalError"
              /\ fallbackCalls' = 1
              /\ ret'.op = "query"
              /\ ret'.outcome = lookup(SIMULATED_DATASET, location)

C10_NoStateRetained ==
    /\ datasets = InitialDatasets
    /\ ret.op = "lookup" => ret.outcome = lookup(InitialDatasets[ret.ds], ret.loc)
    /\ (QueryDone /\ exc \in ExceptionClasses) =>
            ret.outcome = lookup(SIMULATED_DATASET, ret.loc)
    /\ (QueryDone /\ exc \in BaseExceptionClasses) => ret.outcome = Raised(exc)
    /\ (QueryDone /\ failedAt = "") => ret.outcome.value = strip(ret.text)

C10_Witness ==
    /\ ret.op = "lookup"
    /\ ret.again
    /\ ret.ds = "SIMULATED_DATASET"
    /\ ret.loc = <<21271, 20140>>
    /\ ret.outcome.value = SIMULATED_DATASET[1].value

====
